---- MODULE Spec2Model ----
(***************************************************************************)
(* Model of the dashboard controller `Home` of                             *)
(* src/iot-dashboard/src/pages/index.js: the React state of the component, *)
(* the two HTTP operations (fetchDevices, fetchDeviceData), the user       *)
(* handlers, the auto-refresh interval and unmount.                        *)
(*                                                                         *)
(* Each action is one JavaScript task: a handler or the continuation of an *)
(* awaited fetch, together with the re-render it triggers and the effect   *)
(* (line 21-29) that re-arms the interval when its dependencies changed.   *)
(* State setters called after unmount are ignored by React.                *)
(***************************************************************************)
EXTENDS Integers, Sequences, FiniteSets, TLC

VARIABLES
  devices,         \* useState([])            line 7
  selectedDevice,  \* useState("")            line 8
  limit,           \* useState(50)            line 9
  rows,            \* useState([])            line 10
  status,          \* useState("Initializing…") line 11
  error,           \* useState("")            line 12
  loading,         \* useState(false)         line 13
  phase,           \* "constructed" | "mounted" | "unmounted"
  devReq,          \* the GET /devices request: "none" | "pending" | "ok" | "err"
  devIssued,       \* number of GET /devices requests issued
  reqs,            \* log of GET /devices/{name}/data requests, in issue order
  timers,          \* the armed intervals, each with the values its closure captured
  lastResp,        \* the device-data response handled last: request index and body
  ev               \* the callback that ran last

vars == <<devices, selectedDevice, limit, rows, status, error, loading,
          phase, devReq, devIssued, reqs, timers, lastResp, ev>>

----------------------------------------------------------------------------
(* Bounds *)

\* at most this many GET /devices/{name}/data requests are issued in a run
MaxRequests == 2

----------------------------------------------------------------------------
(* Values *)

Undefined == "<undefined>"

\* JavaScript truthiness of a string-or-undefined value.
Truthy(x) == x # Undefined /\ x # ""

InitialLimit == 50
MinLimit == 1
MaxLimit == 500

\* status strings (template literals keep their arguments)
Msg(m, d, n) == [msg |-> m, dev |-> d, n |-> n]
StInitializing == Msg("Initializing", "", 0)
StLoadingDevices == Msg("Loading devices", "", 0)
StNoDevices == Msg("No devices found in database.", "", 0)
StDevicesLoaded(first) == Msg("Devices loaded. Selected:", first, 0)
StErrorDevices == Msg("Error loading devices.", "", 0)
StPleaseSelect == Msg("Please select a device.", "", 0)
StLoadingData(d) == Msg("Loading data for", d, 0)
StLoaded(n, d) == Msg("Loaded rows for", d, n)
StErrorData == Msg("Error loading data.", "", 0)

ErrDevices == "Failed to load devices. Check API server or CORS."
ErrData == "Failed to load data. Check API / database."

----------------------------------------------------------------------------
(* Pure helpers *)

\* d.device_name || d.device || d.deviceName
DeviceName(d) ==
  IF Truthy(d.device_name) THEN d.device_name
  ELSE IF Truthy(d.device) THEN d.device
  ELSE d.deviceName

\* A record of the GET /devices body; a field the record lacks reads undefined.
Rec(a, b, c) == [device_name |-> a, device |-> b, deviceName |-> c]

\* data?.map(...) || []   (data is null or an array of records)
DeviceNames(data) ==
  IF data.isNull THEN <<>>
  ELSE [i \in 1..Len(data.list) |-> DeviceName(data.list[i])]

Body(l) == [isNull |-> FALSE, list |-> l]

\* The bodies GET /devices answers with: null, no record, records naming the
\* device under each of the three keys, and records without any name.
DeviceListBodies ==
  { [isNull |-> TRUE, list |-> <<>>],
    Body(<<>>),
    Body(<<Rec("d1", Undefined, Undefined)>>),
    Body(<<Rec(Undefined, "d1", Undefined), Rec("", Undefined, "d2")>>),
    Body(<<Rec(Undefined, Undefined, "")>>),
    Body(<<Rec(Undefined, Undefined, Undefined), Rec("d2", "d1", Undefined)>>) }

\* The value of an <option value={name}>{name}</option>: an undefined name
\* renders an option without value and without text, whose value is "".
OptionValue(name) == IF name = Undefined THEN "" ELSE name

\* variant: a free-text device field instead of the <select>
OptionValuesAny(devs) == {"", "d1", "d2"}

\* The values the <select> can report in e.target.value.
OptionValues(devs) ==
  IF Len(devs) = 0 THEN {""}
  ELSE {OptionValue(devs[i]) : i \in 1..Len(devs)}

\* Number(e.target.value): the input is a sequence of characters.
Digits == <<"0", "1", "2", "3", "4", "5", "6", "7", "8", "9">>
IsDigit(c) == \E i \in 1..10 : Digits[i] = c
DigitVal(c) == (CHOOSE i \in 1..10 : Digits[i] = c) - 1

RECURSIVE DigitsVal(_)
DigitsVal(s) ==
  IF s = <<>> THEN 0
  ELSE 10 * DigitsVal(SubSeq(s, 1, Len(s) - 1)) + DigitVal(s[Len(s)])

AllDigits(s) == Len(s) > 0 /\ \A i \in 1..Len(s) : IsDigit(s[i])

NaN == [nan |-> TRUE, v |-> 0]
Num(n) == [nan |-> FALSE, v |-> n]

NumberJS(s) ==
  IF s = <<>> THEN Num(0)
  ELSE IF AllDigits(s) THEN Num(DigitsVal(s))
  ELSE IF s[1] = "-" /\ AllDigits(Tail(s)) THEN Num(0 - DigitsVal(Tail(s)))
  ELSE NaN

Min(a, b) == IF a < b THEN a ELSE b
Max(a, b) == IF a > b THEN a ELSE b

\* variant: Math.min(500, Number(value) || 1), the lower bound forgotten
ClampLimitNoFloor(s) ==
  LET n == NumberJS(s)
      x == IF n.nan \/ n.v = 0 THEN 1 ELSE n.v
  IN Min(MaxLimit, x)

\* Math.max(1, Math.min(500, Number(value) || 1))
ClampLimit(s) ==
  LET n == NumberJS(s)
      x == IF n.nan \/ n.v = 0 THEN 1 ELSE n.v
  IN Max(MinLimit, Min(MaxLimit, x))

LimitInputs ==
  { <<>>, <<"0">>, <<"-", "5">>, <<"7">>, <<"5", "0", "1">>, <<"a", "b", "c">> }

\* Rows as the server returns them for a device.
Row(d, k) == [device |-> d, k |-> k]

\* The JSON bodies GET /devices/{d}/data answers with: { data, count } with
\* no row or one row, and an object that has neither field.
DataBodies(d) ==
  { [hasData |-> FALSE, data |-> <<>>, hasCount |-> FALSE, count |-> 0],
    [hasData |-> TRUE, data |-> <<>>, hasCount |-> TRUE, count |-> 0],
    [hasData |-> TRUE, data |-> <<Row(d, 1)>>, hasCount |-> TRUE, count |-> 1] }

\* A state setter: ignored once the component is unmounted.
Set(cur, new) == IF phase = "unmounted" THEN cur ELSE new

Closure(sel, lim, ld) == [selectedDevice |-> sel, limit |-> lim, loading |-> ld]

\* the effect's dependency array [selectedDevice, limit, loading]
DepsChanged ==
  <<selectedDevice', limit', loading'>> # <<selectedDevice, limit, loading>>

\* variant: the effect returns no cleanup, so earlier intervals stay armed
RearmNoCleanup ==
  timers' = IF phase' # "mounted" THEN {}
            ELSE IF phase = "mounted" /\ ~DepsChanged THEN timers
            ELSE timers \cup {Closure(selectedDevice', limit', loading')}

\* useEffect(..., [selectedDevice, limit, loading]) (lines 21-29): on mount and
\* after a render that changed a dependency, the cleanup clears the interval
\* and a new one is armed whose closure holds the rendered values; unmount
\* runs the cleanup only.
Rearm ==
  timers' = IF phase' # "mounted" THEN {}
            ELSE IF phase = "mounted" /\ ~DepsChanged THEN timers
            ELSE {Closure(selectedDevice', limit', loading')}

\* the body of a response when none has been handled yet
NoBody == [hasData |-> FALSE, data |-> <<>>, hasCount |-> FALSE, count |-> 0]
NoResp == [i |-> 0, json |-> NoBody]

Request(d, lim, sl) == [dev |-> d, limit |-> lim, showLoading |-> sl, st |-> "pending"]

InFlight == {i \in 1..Len(reqs) : reqs[i].st = "pending"}

----------------------------------------------------------------------------
Init ==
  /\ devices = <<>>
  /\ selectedDevice = ""
  /\ limit = InitialLimit
  /\ rows = <<>>
  /\ status = StInitializing
  /\ error = ""
  /\ loading = FALSE
  /\ phase = "constructed"
  /\ devReq = "none"
  /\ devIssued = 0
  /\ reqs = <<>>
  /\ timers = {}
  /\ lastResp = NoResp
  /\ ev = "init"

\* variant: the guard of lines 65-68 forgotten
FetchDeviceDataStartNoGuard(deviceName, limitValue, showLoading) ==
  /\ Len(reqs) < MaxRequests
  /\ loading' = IF showLoading THEN Set(loading, TRUE) ELSE loading
  /\ error' = Set(error, "")
  /\ status' = Set(status, StLoadingData(deviceName))
  /\ reqs' = Append(reqs, Request(deviceName, limitValue, showLoading))

\* variant: setLoading(true) whatever showLoading is
FetchDeviceDataStartAlwaysLoading(deviceName, limitValue, showLoading) ==
  IF ~Truthy(deviceName)
  THEN /\ status' = Set(status, StPleaseSelect)
       /\ UNCHANGED <<loading, error, reqs>>
  ELSE /\ Len(reqs) < MaxRequests
       /\ loading' = Set(loading, TRUE)
       /\ error' = Set(error, "")
       /\ status' = Set(status, StLoadingData(deviceName))
       /\ reqs' = Append(reqs, Request(deviceName, limitValue, showLoading))

\* variant: setLoading(true) of line 70 forgotten
FetchDeviceDataStartNoLoading(deviceName, limitValue, showLoading) ==
  IF ~Truthy(deviceName)
  THEN /\ status' = Set(status, StPleaseSelect)
       /\ UNCHANGED <<loading, error, reqs>>
  ELSE /\ Len(reqs) < MaxRequests
       /\ loading' = loading
       /\ error' = Set(error, "")
       /\ status' = Set(status, StLoadingData(deviceName))
       /\ reqs' = Append(reqs, Request(deviceName, limitValue, showLoading))

\* fetchDeviceData up to its first await (lines 64-78).  A status the
\* caller set earlier in the same task is overwritten by the one set here.
FetchDeviceDataStart(deviceName, limitValue, showLoading) ==
  IF ~Truthy(deviceName)
  THEN /\ status' = Set(status, StPleaseSelect)
       /\ UNCHANGED <<loading, error, reqs>>
  ELSE /\ Len(reqs) < MaxRequests
       /\ loading' = IF showLoading THEN Set(loading, TRUE) ELSE loading
       /\ error' = Set(error, "")
       /\ status' = Set(status, StLoadingData(deviceName))
       /\ reqs' = Append(reqs, Request(deviceName, limitValue, showLoading))

\* First render's effects: fetchDevices() up to its await, and setInterval.
Mount ==
  /\ phase = "constructed"
  /\ phase' = "mounted"
  /\ status' = StLoadingDevices
  /\ error' = ""
  /\ devReq' = "pending"
  /\ devIssued' = devIssued + 1
  /\ ev' = "mount"
  /\ UNCHANGED lastResp
  /\ UNCHANGED <<devices, selectedDevice, limit, rows, loading, reqs>>
  /\ Rearm

\* variant: the `return` of line 48 forgotten, so an empty list falls through
\* to the default selection
FetchDevicesOkNoReturn(data) ==
  /\ devReq = "pending"
  /\ devReq' = "ok"
  /\ LET deviceNames == DeviceNames(data)
         first == IF Len(deviceNames) = 0 THEN Undefined ELSE deviceNames[1] IN
       /\ devices' = Set(devices, deviceNames)
       /\ selectedDevice' = Set(selectedDevice, first)
       /\ FetchDeviceDataStart(first, InitialLimit, TRUE)
  /\ ev' = "devicesOk"
  /\ UNCHANGED lastResp
  /\ UNCHANGED <<limit, rows, phase, devIssued>>
  /\ Rearm

\* fetchDevices after `await res.json()` succeeded (lines 38-56).  The
\* `limit` it passes on is the one of the first render, whose effect called it.
FetchDevicesOk(data) ==
  /\ devReq = "pending"
  /\ devReq' = "ok"
  /\ LET deviceNames == DeviceNames(data) IN
       /\ devices' = Set(devices, deviceNames)
       /\ IF Len(deviceNames) = 0
          THEN /\ selectedDevice' = Set(selectedDevice, "")
               /\ status' = Set(status, StNoDevices)
               /\ UNCHANGED <<loading, error, reqs>>
          ELSE /\ selectedDevice' = Set(selectedDevice, deviceNames[1])
               /\ FetchDeviceDataStart(deviceNames[1], InitialLimit, TRUE)
  /\ ev' = "devicesOk"
  /\ UNCHANGED lastResp
  /\ UNCHANGED <<limit, rows, phase, devIssued>>
  /\ Rearm

\* variant: the catch calls fetchDevices() again
FetchDevicesFailureRetry ==
  /\ devReq = "pending"
  /\ devReq' = "pending"
  /\ devIssued' = devIssued + 1
  /\ error' = Set(error, "")
  /\ status' = Set(status, StLoadingDevices)
  /\ ev' = "devicesErr"
  /\ UNCHANGED lastResp
  /\ UNCHANGED <<devices, selectedDevice, limit, rows, loading, phase, reqs>>
  /\ Rearm

\* fetchDevices' catch (lines 57-61): non-2xx, network error, unparsable or
\* non-array body.
FetchDevicesFailure ==
  /\ devReq = "pending"
  /\ devReq' = "err"
  /\ error' = Set(error, ErrDevices)
  /\ status' = Set(status, StErrorDevices)
  /\ ev' = "devicesErr"
  /\ UNCHANGED lastResp
  /\ UNCHANGED <<devices, selectedDevice, limit, rows, loading, phase, devIssued, reqs>>
  /\ Rearm

\* variant: no finally block
FinallyLoadingNever(showLoading) == loading

\* finally { if (showLoading) setLoading(false) }
FinallyLoading(showLoading) ==
  IF showLoading THEN Set(loading, FALSE) ELSE loading

Settle(i, outcome) == [reqs EXCEPT ![i].st = outcome]

\* variant: the success status is only set by the latest request
StatusAfterOkLatestOnly(i, json) ==
  IF i = Len(reqs)
  THEN Set(status, StLoaded(IF json.hasCount THEN json.count ELSE 0, reqs[i].dev))
  ELSE status

\* setStatus(`Loaded ${json.count || 0} rows for ${deviceName}.`)
StatusAfterOk(i, json) ==
  Set(status, StLoaded(IF json.hasCount THEN json.count ELSE 0, reqs[i].dev))

\* json.data || []
DataOf(json) == IF json.hasData THEN json.data ELSE <<>>

\* variant: the response of a request that is not the latest is dropped
RowsAfterOkLatestOnly(i, json) ==
  IF i = Len(reqs) THEN Set(rows, DataOf(json)) ELSE rows

\* setRows(json.data || [])
RowsAfterOk(i, json) == Set(rows, DataOf(json))

\* fetchDeviceData after a 2xx response with a JSON body (lines 80-83, 89).
FetchDeviceDataOk(i, json) ==
  /\ reqs[i].st = "pending"
  /\ reqs' = Settle(i, "ok")
  /\ rows' = RowsAfterOk(i, json)
  /\ status' = StatusAfterOk(i, json)
  /\ loading' = FinallyLoading(reqs[i].showLoading)
  /\ lastResp' = [i |-> i, json |-> json]
  /\ ev' = "dataOk"
  /\ UNCHANGED <<devices, selectedDevice, limit, error, phase, devReq, devIssued>>
  /\ Rearm

\* variant: the catch also clears the table
FetchDeviceDataFailureClearsRows(i) ==
  /\ reqs[i].st = "pending"
  /\ reqs' = Settle(i, "err")
  /\ rows' = Set(rows, <<>>)
  /\ error' = Set(error, ErrData)
  /\ status' = Set(status, StErrorData)
  /\ loading' = FinallyLoading(reqs[i].showLoading)
  /\ ev' = "dataErr"
  /\ UNCHANGED lastResp
  /\ UNCHANGED <<devices, selectedDevice, limit, phase, devReq, devIssued>>
  /\ Rearm

\* fetchDeviceData's catch and finally (lines 84-90).
FetchDeviceDataFailure(i) ==
  /\ reqs[i].st = "pending"
  /\ reqs' = Settle(i, "err")
  /\ error' = Set(error, ErrData)
  /\ status' = Set(status, StErrorData)
  /\ loading' = FinallyLoading(reqs[i].showLoading)
  /\ ev' = "dataErr"
  /\ UNCHANGED lastResp
  /\ UNCHANGED <<devices, selectedDevice, limit, rows, phase, devReq, devIssued>>
  /\ Rearm

\* variant: the else branch of lines 98-100 forgotten
HandleDeviceChangeKeepsRows(deviceName) ==
  /\ phase = "mounted"
  /\ deviceName # OptionValue(selectedDevice)
  /\ selectedDevice' = deviceName
  /\ IF Truthy(deviceName)
     THEN FetchDeviceDataStart(deviceName, limit, TRUE)
     ELSE UNCHANGED <<status, error, loading, reqs>>
  /\ ev' = "deviceChange"
  /\ UNCHANGED lastResp
  /\ UNCHANGED <<devices, limit, rows, phase, devReq, devIssued>>
  /\ Rearm

\* handleDeviceChange (lines 93-101); the <select value={selectedDevice}>
\* reports a change when the user picks another option than the one shown.
HandleDeviceChange(deviceName) ==
  /\ phase = "mounted"
  /\ deviceName # OptionValue(selectedDevice)
  /\ selectedDevice' = deviceName
  /\ IF Truthy(deviceName)
     THEN /\ FetchDeviceDataStart(deviceName, limit, TRUE)
          /\ UNCHANGED rows
     ELSE /\ rows' = <<>>
          /\ UNCHANGED <<status, error, loading, reqs>>
  /\ ev' = "deviceChange"
  /\ UNCHANGED lastResp
  /\ UNCHANGED <<devices, limit, phase, devReq, devIssued>>
  /\ Rearm

\* variant: the onChange also refreshes the selected device
HandleLimitChangeFetches(value) ==
  /\ phase = "mounted"
  /\ limit' = ClampLimit(value)
  /\ IF Truthy(selectedDevice)
     THEN FetchDeviceDataStart(selectedDevice, limit', TRUE)
     ELSE UNCHANGED <<status, error, loading, reqs>>
  /\ ev' = "limitChange"
  /\ UNCHANGED lastResp
  /\ UNCHANGED <<devices, selectedDevice, rows, phase, devReq, devIssued>>
  /\ Rearm

\* the limit input's onChange (lines 144-146)
HandleLimitChange(value) ==
  /\ phase = "mounted"
  /\ limit' = ClampLimit(value)
  /\ ev' = "limitChange"
  /\ UNCHANGED lastResp
  /\ UNCHANGED <<devices, selectedDevice, rows, status, error, loading, phase,
                 devReq, devIssued, reqs>>
  /\ Rearm

\* <button disabled={loading || !selectedDevice}>
RefreshDisabled == loading \/ ~Truthy(selectedDevice)

\* handleRefreshClick (lines 103-106).  The button is disabled while loading.
\* With no device selected the button is disabled as well and the handler
\* returns at its own guard (line 104); the handler is let run there, which
\* changes no state of the component.
HandleRefreshClick ==
  /\ phase = "mounted"
  /\ ~loading
  /\ IF ~Truthy(selectedDevice)
     THEN UNCHANGED <<status, error, loading, reqs>>
     ELSE FetchDeviceDataStart(selectedDevice, limit, TRUE)
  /\ ev' = "refresh"
  /\ UNCHANGED lastResp
  /\ UNCHANGED <<devices, selectedDevice, limit, rows, phase, devReq, devIssued>>
  /\ Rearm

\* variant: if (selectedDevice), the loading guard forgotten
TickFetchesIgnoringLoading(t) == Truthy(t.selectedDevice)

\* if (selectedDevice && !loading), on the values the interval's closure holds
TickFetches(t) == Truthy(t.selectedDevice) /\ ~t.loading

\* the setInterval callback (lines 22-26) of the armed interval t
Tick(t) ==
  /\ phase = "mounted"
  /\ t \in timers
  /\ IF TickFetches(t)
     THEN FetchDeviceDataStart(t.selectedDevice, t.limit, FALSE)
     ELSE UNCHANGED <<status, error, loading, reqs>>
  /\ ev' = "tick"
  /\ UNCHANGED lastResp
  /\ UNCHANGED <<devices, selectedDevice, limit, rows, phase, devReq, devIssued>>
  /\ Rearm

\* unmount: the effect's cleanup runs clearInterval(id) (line 28)
Unmount ==
  /\ phase = "mounted"
  /\ phase' = "unmounted"
  /\ ev' = "unmount"
  /\ UNCHANGED lastResp
  /\ UNCHANGED <<devices, selectedDevice, limit, rows, status, error, loading,
                 devReq, devIssued, reqs>>
  /\ Rearm

Next ==
  \/ Mount
  \/ \E data \in DeviceListBodies : FetchDevicesOk(data)
  \/ FetchDevicesFailure
  \/ \E i \in 1..Len(reqs) : \E json \in DataBodies(reqs[i].dev) : FetchDeviceDataOk(i, json)
  \/ \E i \in 1..Len(reqs) : FetchDeviceDataFailure(i)
  \/ \E deviceName \in OptionValues(devices) : HandleDeviceChange(deviceName)
  \/ \E value \in LimitInputs : HandleLimitChange(value)
  \/ HandleRefreshClick
  \/ \E t \in timers : Tick(t)
  \/ Unmount

Spec == Init /\ [][Next]_vars

----------------------------------------------------------------------------
(* Properties *)

Mounted == phase = "mounted"
Issued == Len(reqs)
LastReq == reqs[Len(reqs)]

\* C1: every successful device-list response with at least one entry makes
\* the first entry the selected device and starts exactly one device-data
\* fetch for it with loading shown.
C1_FirstSelectedAndFetched ==
  [][(devReq = "pending" /\ devReq' = "ok" /\ Len(devices') >= 1)
       => /\ selectedDevice' = devices'[1]
          /\ loading'
          /\ Len(reqs') = Len(reqs) + 1
          /\ reqs'[Len(reqs')].dev = devices'[1]
          /\ reqs'[Len(reqs')].showLoading]_vars

\* C2: once the component is unmounted, no device-data request is issued.
C2_NoFetchAfterUnmount ==
  [][phase = "unmounted" => Len(reqs') = Len(reqs)]_vars

\* C3: while the component is mounted, the loading flag is true only while a
\* fetch started with showLoading = true is in flight; in particular it is
\* false when no fetch is in flight.
C3_LoadingOnlyWhileInFlight ==
  Mounted =>
    /\ loading => \E i \in InFlight : reqs[i].showLoading
    /\ InFlight = {} => ~loading

C3_Witness ==
  /\ Mounted
  /\ InFlight = {}
  /\ ~loading
  /\ \E i \in 1..Len(reqs) : reqs[i].showLoading /\ reqs[i].st = "err"
  /\ \E i \in 1..Len(reqs) : reqs[i].showLoading /\ reqs[i].st = "ok"

\* C4: the status shown is the loading, success or error status of
\* the most recently started device-data fetch.
C4_StatusOfLastStarted ==
  (Mounted /\ Issued > 0) =>
    CASE LastReq.st = "pending" -> status = StLoadingData(LastReq.dev)
      [] LastReq.st = "ok" -> status.msg = "Loaded rows for" /\ status.dev = LastReq.dev
      [] LastReq.st = "err" -> status = StErrorData

\* C4, amended: the status shown is the one of the operation handled last.
\* Every start of a fetch sets the loading status of that fetch, and every
\* response sets the success or error status of the fetch it answers, whether
\* or not a fetch started later is still in flight.
C4_StatusOfLastHandled ==
  [][phase' = "mounted" =>
       /\ Len(reqs') > Len(reqs) => status' = StLoadingData(reqs'[Len(reqs')].dev)
       /\ \A i \in 1..Len(reqs) :
            /\ (reqs[i].st = "pending" /\ reqs'[i].st = "ok")
                 => (status'.msg = "Loaded rows for" /\ status'.dev = reqs[i].dev)
            /\ (reqs[i].st = "pending" /\ reqs'[i].st = "err")
                 => status' = StErrorData]_vars

\* the response of the first fetch arrived while the second is in flight
C4_Witness ==
  /\ Mounted
  /\ Issued = 2
  /\ reqs[1].st = "ok"
  /\ reqs[2].st = "pending"
  /\ status.msg = "Loaded rows for"

\* C5: a failed device-data fetch, loading-shown or silent, leaves the reading
\* list as it was, sets a non-empty error message and the data-error status.
C5_FailureKeepsRows ==
  [][\A i \in 1..Len(reqs) :
       (Mounted /\ reqs[i].st = "pending" /\ reqs'[i].st = "err")
         => /\ rows' = rows
            /\ error' # ""
            /\ error' = ErrData
            /\ status' = StErrorData]_vars

\* a silent fetch failed while the table showed rows
C5_Witness ==
  /\ Mounted
  /\ ev = "dataErr"
  /\ rows # <<>>
  /\ \E i \in 1..Len(reqs) : ~reqs[i].showLoading /\ reqs[i].st = "err"

\* C6: after a failed device-list fetch the device list, the reading list and
\* the selection are empty, the error message is set, the status is the
\* load-error status, and at most one device-list request is ever issued.
C6_DeviceListFailure ==
  /\ devIssued <= 1
  /\ (Mounted /\ devReq = "err") =>
       /\ devices = <<>>
       /\ rows = <<>>
       /\ selectedDevice = ""
       /\ error # ""
       /\ status = StErrorDevices

C6_Witness ==
  /\ Mounted
  /\ devReq = "err"
  /\ ev = "tick"

\* C7: after an empty device-list response the selection and the reading list
\* are empty, the status is the "no devices" status, and no device-data
\* request is issued then or later.
C7_EmptyDeviceList ==
  (Mounted /\ devReq = "ok" /\ devices = <<>>) =>
    /\ selectedDevice = ""
    /\ rows = <<>>
    /\ status = StNoDevices
    /\ Issued = 0

C7_Witness ==
  /\ Mounted
  /\ devReq = "ok"
  /\ devices = <<>>
  /\ ev = "tick"

\* C8: a background tick issues no request while the loading flag is true,
\* and exactly one request, with showLoading = false and for the selected
\* device, while the loading flag is false and a device is selected.
C8_Tick ==
  [][ev' = "tick" =>
       IF loading THEN reqs' = reqs
       ELSE IF Truthy(selectedDevice)
            THEN reqs' = Append(reqs, Request(selectedDevice, limit, FALSE))
            ELSE reqs' = reqs]_vars

\* a tick has just issued its silent request
C8_Witness ==
  /\ ev = "tick"
  /\ Issued = 2
  /\ ~LastReq.showLoading
  /\ LastReq.st = "pending"
  /\ LastReq.dev = selectedDevice

\* C9: the selected device, if not the empty string, is a member of the
\* device list.
C9_SelectedIsListed ==
  selectedDevice # "" => \E i \in 1..Len(devices) : devices[i] = selectedDevice

\* the user picked a device from a list that has a record without a name
C9_Witness ==
  /\ ev = "deviceChange"
  /\ Truthy(selectedDevice)
  /\ \E i \in 1..Len(devices) : devices[i] = Undefined

\* C10: the row limit is in [1,500], and so is the limit of every
\* device-data request.
C10_LimitInRange ==
  /\ limit \in MinLimit..MaxLimit
  /\ \A i \in 1..Len(reqs) : reqs[i].limit \in MinLimit..MaxLimit

\* a request carries a limit that was clamped from above
C10_Witness ==
  /\ limit = MinLimit
  /\ \E i \in 1..Len(reqs) : reqs[i].limit = MaxLimit

\* C11: when device-data fetches overlap, the reading list after a response
\* has been handled is the data of that response, the one that arrived last,
\* whatever the order the requests were issued in; a successful response
\* replaces the whole list, by the empty list when it has no data.
C11_LastResponseWins ==
  (Mounted /\ ev = "dataOk") => rows = DataOf(lastResp.json)

\* the response of the first request arrived after the one of the second
C11_Witness ==
  /\ Mounted
  /\ ev = "dataOk"
  /\ Issued = 2
  /\ reqs[2].st = "ok"
  /\ lastResp.i = 1
  /\ reqs[1].dev # reqs[2].dev
  /\ rows = <<Row(reqs[1].dev, 1)>>

C13_ChangeDevice ==
  [][ev' = "deviceChange" =>
       IF Truthy(selectedDevice')
       THEN /\ reqs' = Append(reqs, Request(selectedDevice', limit, TRUE))
            /\ loading'
            /\ rows' = rows
       ELSE /\ rows' = <<>>
            /\ reqs' = reqs]_vars

\* the user picked a device after having raised the limit
C13_Witness ==
  /\ ev = "deviceChange"
  /\ Issued = 2
  /\ LastReq = Request(selectedDevice, MaxLimit, TRUE)
  /\ limit = MaxLimit

\* C14: Change limit issues no request and leaves the selection, the reading
\* list, the status, the error message and the loading flag as they were; a
\* fetch started afterwards by the user or by a tick carries the limit set.
C14_ChangeLimit ==
  [][/\ ev' = "limitChange"
          => /\ UNCHANGED <<reqs, selectedDevice, rows, status, error, loading>>
             /\ limit' \in MinLimit..MaxLimit
     /\ (ev' \in {"refresh", "tick", "deviceChange"} /\ Len(reqs') > Len(reqs))
          => reqs'[Len(reqs')].limit = limit]_vars

\* a tick fetched with a limit the user had set
C14_Witness ==
  /\ ev = "tick"
  /\ Issued = 2
  /\ LastReq = Request(selectedDevice, 7, FALSE)
  /\ limit = 7
  /\ reqs[1].limit = InitialLimit

\* C15: at most one interval is armed, its closure holds the selected device,
\* the limit and the loading flag of the current state, and a request a tick
\* issues is for the device and the limit of the state the tick fires in.
C15_TimerCurrent ==
  [][/\ Cardinality(timers') <= 1
     /\ phase' = "mounted" => timers' = {Closure(selectedDevice', limit', loading')}
     /\ phase' = "unmounted" => timers' = {}
     /\ (ev' = "tick" /\ Len(reqs') > Len(reqs))
          => /\ reqs'[Len(reqs')].dev = selectedDevice
             /\ reqs'[Len(reqs')].limit = limit]_vars

\* a tick fetched after the user had changed the device and the limit
C15_Witness ==
  /\ ev = "tick"
  /\ Len(devices) = 2
  /\ devices[1] = Undefined
  /\ Issued = 2
  /\ LastReq = Request("d2", MinLimit, FALSE)
  /\ timers = {Closure("d2", MinLimit, FALSE)}

\* C16: fetchDeviceData called with an empty device name sets the "please
\* select a device" status, issues no request and leaves the reading list,
\* the error message and the loading flag as they were; handleRefreshClick
\* with no device selected issues no request and changes no state.
C16_EmptyDeviceNoOp ==
  [][/\ (Mounted /\ devReq = "pending" /\ devReq' = "ok"
          /\ Len(devices') >= 1 /\ ~Truthy(devices'[1]))
          => /\ status' = StPleaseSelect
             /\ UNCHANGED <<reqs, rows, error, loading>>
     /\ (ev' = "refresh" /\ ~Truthy(selectedDevice))
          => UNCHANGED <<devices, selectedDevice, limit, rows, status, error,
                         loading, phase, devReq, devIssued, reqs, timers>>]_vars

\* the refresh handler ran with no device selected, after a device list whose
\* first record has no name
C16_Witness ==
  /\ ev = "refresh"
  /\ selectedDevice = Undefined
  /\ status = StPleaseSelect
  /\ Issued = 0

\* C17: while a fetch started with showLoading = true is in flight, the
\* loading flag is true.
C17_LoadingWhileInFlight ==
  (Mounted /\ \E i \in InFlight : reqs[i].showLoading) => loading

\* C17, amended: the start of a fetch with showLoading = true sets the loading
\* flag, and the flag stays true until the response of a fetch started with
\* showLoading = true is handled, which need not be the last one in flight.
C17_LoadingUntilFirstResponse ==
  [][phase' = "mounted" =>
       /\ (Len(reqs') > Len(reqs) /\ reqs'[Len(reqs')].showLoading) => loading'
       /\ (loading /\ ~loading')
            => \E i \in 1..Len(reqs) :
                 reqs[i].showLoading /\ reqs[i].st = "pending" /\ reqs'[i].st # "pending"]_vars

\* the first of two loading-shown fetches ended, the other is in flight
C17_Witness ==
  /\ Mounted
  /\ ~loading
  /\ ~RefreshDisabled
  /\ \E i \in InFlight : reqs[i].showLoading

\* C18: while the status is the success summary of a data fetch the error
\* message is empty; the error message is set only while the status is one of
\* the error statuses.
C18_ErrorOnlyWithErrorStatus ==
  Mounted =>
    /\ status.msg = "Loaded rows for" => error = ""
    /\ error # "" => status \in {StErrorData, StErrorDevices}

\* C19: when a device is selected, no device-data fetch is in flight and the
\* reading list is not empty, its rows are rows of the selected device.
C19_RowsOfSelectedDevice ==
  (Mounted /\ Truthy(selectedDevice) /\ InFlight = {} /\ rows # <<>>)
    => \A k \in 1..Len(rows) : rows[k].device = selectedDevice

====
